---- MODULE Spec2Model ----
(***************************************************************************)
(* Deposit estimation and payload assembly of the ticketing application   *)
(* (apps/ticketing/src/utils/helpers.ts): calculateDepositCost and        *)
(* createPayload.                                                          *)
(*                                                                         *)
(* JavaScript values are represented as follows.                           *)
(*   - A string that the code inspects character by character (a ticket   *)
(*     name, a price, a decimal amount) is a sequence of one-character    *)
(*     strings, <<"V", "I", "P">>.  JSON text and identifiers that are     *)
(*     only concatenated and measured are TLA+ strings.                    *)
(*   - A BigInt is a little-endian sequence of decimal digits without     *)
(*     leading zeros (zero is <<0>>); BigInt arithmetic is exact.          *)
(*   - An optional property is <<>> when undefined and <<v>> otherwise.    *)
(***************************************************************************)
EXTENDS Integers, Sequences, FiniteSets, TLC

VARIABLES
    estArgs,            \* arguments of the calculateDepositCost call under test
    estResult,          \* <<>> before the call, else <<outcome of the call>>
    estPrev,            \* the outcome that a re-estimate replaced, else <<>>
    localStorage,       \* the value stored under MASTER_KEY, if any
    now,                \* Date.now()
    formData,           \* the form passed to createPayload
    ticketArtworkCids,  \* the caller's array passed to createPayload
    supplied,           \* history: the array's contents when each call was made
    pc,                 \* where each createPayload invocation stands
    running,            \* the invocation executing synchronous code, or 0
    locals,             \* the local variables of each invocation
    outcome,            \* how each invocation's promise settled
    mediaForm,          \* the form passed to serializeMediaForWorker
    mediaPc,            \* where the serializeMediaForWorker invocation stands
    mediaIndex,         \* the ticket whose artwork is being read
    arrayBuffers,       \* the local array of encoded artworks
    mediaOutcome        \* how the promise of serializeMediaForWorker settled

estVars == <<estArgs, estResult, estPrev>>

payloadVars ==
    <<localStorage, now, formData, ticketArtworkCids, supplied, pc, running, locals,
      outcome>>

mediaVars == <<mediaForm, mediaPc, mediaIndex, arrayBuffers, mediaOutcome>>

vars == <<estVars, payloadVars, mediaVars>>

(***************************************************************************)
(* Bounds of the model.                                                    *)
(***************************************************************************)
MaxTickets == 2     \* ticket types per form
MaxSupply == 1      \* largest ordinary max_tickets drawn for a listing
MaxEstTickets == 7  \* tickets passed to calculateDepositCost directly
MaxLinTickets == 2  \* tickets of a call whose texts are lengthened afterwards
MaxCids == 2        \* artwork references supplied by the caller
MaxNow == 1         \* milliseconds the clock may advance
MaxMediaTickets == 2 \* tickets of a form passed to serializeMediaForWorker

(***************************************************************************)
(* Strings.                                                                *)
(***************************************************************************)
Undefined == <<>>

Some(v) == <<v>>

\* `opt ?? dflt`
OrElse(opt, dflt) == IF opt = <<>> THEN dflt ELSE opt[1]

RECURSIVE Join(_)
\* The characters of s as one string.
Join(s) == IF s = <<>> THEN "" ELSE Head(s) \o Join(Tail(s))

RECURSIVE JoinWith(_, _)
\* Array.prototype.join: the strings of parts separated by sep.
JoinWith(parts, sep) ==
    IF parts = <<>> THEN ""
    ELSE IF Len(parts) = 1 THEN parts[1]
    ELSE parts[1] \o sep \o JoinWith(Tail(parts), sep)

RECURSIVE Flatten(_)
Flatten(seqs) == IF seqs = <<>> THEN <<>> ELSE Head(seqs) \o Flatten(Tail(seqs))

DigitChars == <<"0", "1", "2", "3", "4", "5", "6", "7", "8", "9">>

DigitOfChar(c) == CHOOSE d \in 0..9 : DigitChars[d + 1] = c

(***************************************************************************)
(* BigInt: exact arithmetic on little-endian decimal digit sequences.      *)
(***************************************************************************)
Max(a, b) == IF a >= b THEN a ELSE b

Min(a, b) == IF a <= b THEN a ELSE b

DigitAt(a, i) == IF i <= Len(a) THEN a[i] ELSE 0

RECURSIVE Trim(_)
\* Drops the most significant zeros, keeping one digit.
Trim(a) ==
    IF Len(a) > 1 /\ a[Len(a)] = 0 THEN Trim(SubSeq(a, 1, Len(a) - 1)) ELSE a

RECURSIVE Carry(_, _, _)
\* Propagates carries (and borrows) through column sums whose value is >= 0.
Carry(cols, i, c) ==
    IF i > Len(cols)
    THEN IF c <= 0 THEN <<>> ELSE <<c % 10>> \o Carry(cols, i, c \div 10)
    ELSE LET v == cols[i] + c
         IN  <<v % 10>> \o Carry(cols, i + 1, v \div 10)

Normalize(cols) == Trim(IF cols = <<>> THEN <<0>> ELSE Carry(cols, 1, 0))

RECURSIVE BigIntOfNumber(_)
\* BigInt(n) for a non-negative integral Number n.
BigIntOfNumber(n) ==
    IF n < 10 THEN <<n>> ELSE <<n % 10>> \o BigIntOfNumber(n \div 10)

\* BigInt('...') for a string of decimal digits.
BigIntOfString(s) ==
    Trim([i \in 1..Len(s) |-> DigitOfChar(s[Len(s) + 1 - i])])

\* BigInt.prototype.toString(): the decimal digits, most significant first.
BigIntToString(a) == [i \in 1..Len(a) |-> DigitChars[a[Len(a) + 1 - i] + 1]]

BigAdd(a, b) ==
    Normalize([i \in 1..Max(Len(a), Len(b)) |-> DigitAt(a, i) + DigitAt(b, i)])

\* a - b, for a >= b.
BigSub(a, b) ==
    Normalize([i \in 1..Max(Len(a), Len(b)) |-> DigitAt(a, i) - DigitAt(b, i)])

RECURSIVE ColumnSum(_, _, _, _)
ColumnSum(a, b, k, i) ==
    IF i > Min(Len(a), k) THEN 0
    ELSE a[i] * b[k + 1 - i] + ColumnSum(a, b, k, i + 1)

BigMul(a, b) ==
    Normalize([k \in 1..(Len(a) + Len(b) - 1) |->
                  ColumnSum(a, b, k, Max(1, k + 1 - Len(b)))])

RECURSIVE SmallValue(_)
\* The value of a BigInt that fits a machine integer of the model.
SmallValue(a) == IF a = <<>> THEN 0 ELSE a[1] + 10 * SmallValue(Tail(a))

RECURSIVE RemainderFrom(_, _, _)
\* The remainder left by long division of the digits i..Len(a) of a by n.
RemainderFrom(a, i, n) ==
    IF i > Len(a) THEN 0 ELSE (RemainderFrom(a, i + 1, n) * 10 + a[i]) % n

\* a / b on BigInts (truncating), for a >= 0 and a small b > 0.
BigDiv(a, b) ==
    LET n == SmallValue(b)
    IN  Trim([i \in 1..Len(a) |-> (RemainderFrom(a, i + 1, n) * 10 + a[i]) \div n])

RECURSIVE LessFrom(_, _, _)
LessFrom(a, b, i) ==
    IF i = 0 THEN FALSE
    ELSE IF a[i] # b[i] THEN a[i] < b[i]
    ELSE LessFrom(a, b, i - 1)

BigLess(a, b) ==
    IF Len(a) # Len(b) THEN Len(a) < Len(b) ELSE LessFrom(a, b, Len(a))

BigLeq(a, b) == a = b \/ BigLess(a, b)

(***************************************************************************)
(* Constants of the deposit estimator.                                     *)
(***************************************************************************)
FIRST_DROP_BASE_COST ==
    BigIntOfString(<<"1", "5", "8", "9", "9", "9", "9", "9", "9", "9", "9", "9",
                     "9", "9", "9", "0", "0", "0", "0", "0", "0", "0", "0">>)

SUBSEQUENT_DROP_BASE_COST ==
    BigIntOfString(<<"1", "4", "4", "6", "0", "0", "0", "0", "0", "0", "0", "0",
                     "0", "0", "2", "0", "0", "0", "0", "0", "0", "0", "0">>)

FUNDER_METADATA_BASE_COST ==
    BigIntOfString(<<"8", "4", "0", "0", "0", "0", "0", "0", "0", "0", "0", "0",
                     "0", "0", "0", "0", "0", "0", "0", "0", "0">>)

FIRST_MARKET_DROP_BASE_COST ==
    BigIntOfString(<<"1", "1", "7", "9", "0", "0", "0", "0", "0", "0", "0", "0",
                     "0", "0", "0", "0", "0", "0", "0", "0", "0", "0", "0">>)

SUBSEQUENT_MARKET_DROP_BASE_COST ==
    BigIntOfString(<<"6", "8", "1", "0", "0", "0", "0", "0", "0", "0", "0", "0",
                     "0", "0", "0", "0", "0", "0", "0", "0", "0", "0">>)

YOCTO_PER_BYTE ==
    BigIntOfString(<<"1", "5", "0", "0", "0", "0", "0", "0", "0", "0", "0", "0",
                     "0", "0", "0", "0", "0", "0", "0", "0">>)

BASE_MARKET_BYTES_PER_KEY == BigIntOfString(<<"8", "0", "0">>)

METADATA_MARKET_BYTES_PER_KEY == BigIntOfString(<<"9", "0", "0">>)

(***************************************************************************)
(* JSON.stringify, for the shapes the code serializes.  A property whose   *)
(* value is undefined is omitted; a NaN number is written null.  The       *)
(* strings drawn by the model need no escaping.                            *)
(***************************************************************************)
NaN == "NaN"

JSONString(s) == "\"" \o s \o "\""

\* A Number carried by its decimal rendering (or NaN).
JSONNumber(x) == IF x = NaN THEN "null" ELSE x

JSONMember(key, optJson) ==
    IF optJson = <<>> THEN <<>> ELSE <<JSONString(key) \o ":" \o optJson[1]>>

JSONObject(members) == "{" \o JoinWith(Flatten(members), ",") \o "}"

JSONArray(items) == "[" \o JoinWith(items, ",") \o "]"

OptJSONString(opt) == IF opt = <<>> THEN <<>> ELSE <<JSONString(opt[1])>>

OptJSONChars(opt) == IF opt = <<>> THEN <<>> ELSE <<JSONString(Join(opt[1]))>>

OptJSONInt(opt) == IF opt = <<>> THEN <<>> ELSE <<ToString(opt[1])>>

\* JSON.stringify of a DateAndTimeInfo.
StringifyDate(d) ==
    JSONObject(<<JSONMember("startDate", Some(JSONNumber(d.startDate))),
                 JSONMember("startTime", OptJSONString(d.startTime)),
                 JSONMember("endDate", Some(JSONNumber(d.endDate))),
                 JSONMember("endTime", OptJSONString(d.endTime))>>)

\* JSON.stringify of a FunderEventMetadata, in the order createPayload sets
\* its properties.
StringifyEventMetadata(e) ==
    JSONObject(<<JSONMember("name", Some(JSONString(e.name))),
                 JSONMember("dateCreated", Some(JSONString(e.dateCreated))),
                 JSONMember("description", OptJSONString(e.description)),
                 JSONMember("location", Some(JSONString(e.location))),
                 JSONMember("date", Some(StringifyDate(e.date))),
                 JSONMember("artwork", Some(JSONString(e.artwork))),
                 JSONMember("id", Some(JSONString(e.id))),
                 JSONMember("pubKey", OptJSONString(e.pubKey)),
                 JSONMember("encPrivKey", OptJSONString(e.encPrivKey)),
                 JSONMember("iv", OptJSONString(e.iv)),
                 JSONMember("salt", OptJSONString(e.salt))>>)

\* JSON.stringify of a TicketInfoFormMetadata.  The forms drawn leave
\* maxPurchases, priceFiat, artwork, salesValidThrough and passValidThrough
\* undefined.
StringifyTicket(t) ==
    JSONObject(<<JSONMember("name", Some(JSONString(Join(t.name)))),
                 JSONMember("denomination", Some(JSONString(t.denomination))),
                 JSONMember("maxSupply", OptJSONInt(t.maxSupply)),
                 JSONMember("priceNear", OptJSONChars(t.priceNear)),
                 JSONMember("description", OptJSONString(t.description))>>)

StringifyTickets(tickets) ==
    JSONArray([i \in 1..Len(tickets) |-> StringifyTicket(tickets[i])])

\* getByteSize: the UTF-8 length of a string; the strings drawn are ASCII.
getByteSize(str) == Len(str)

(***************************************************************************)
(* calculateDepositCost.                                                   *)
(***************************************************************************)
\* base + BigInt(n) * unit, where n may be -1 (an empty collection) and the
\* result is not negative.
AddProduct(base, n, unit) ==
    IF n >= 0
    THEN BigAdd(base, BigMul(BigIntOfNumber(n), unit))
    ELSE BigSub(base, BigMul(BigIntOfNumber(0 - n), unit))

RECURSIVE SumAllKeys(_, _)
\* Mutation: the price test of line 190 is dropped.
SumAllKeys(marketTicketInfo, keys) ==
    IF keys = {} THEN 0
    ELSE LET k == CHOOSE x \in keys : TRUE
         IN  marketTicketInfo[k].max_tickets + SumAllKeys(marketTicketInfo, keys \ {k})

\* Mutation: line 191 assigns instead of accumulating, so one free listing
\* decides the count.
LastFreeKey(marketTicketInfo, keys) ==
    LET free == {k \in keys : marketTicketInfo[k].price = <<"0">>}
    IN  IF free = {} THEN 0
        ELSE marketTicketInfo[CHOOSE k \in free : TRUE].max_tickets

RECURSIVE SumFreeKeys(_, _)
\* The loop over Object.values(marketTicketInfo).
SumFreeKeys(marketTicketInfo, keys) ==
    IF keys = {} THEN 0
    ELSE LET k == CHOOSE x \in keys : TRUE
             keyInfo == marketTicketInfo[k]
         IN  (IF keyInfo.price = <<"0">> THEN keyInfo.max_tickets ELSE 0)
                 + SumFreeKeys(marketTicketInfo, keys \ {k})

numFreeKeys(marketTicketInfo) ==
    SumFreeKeys(marketTicketInfo, DOMAIN marketTicketInfo)

\* Mutation: line 180 charges the byte size once for every ticket.
dropDepositBytesPerTicket(tickets) ==
    BigAdd(AddProduct(FIRST_DROP_BASE_COST, Len(tickets) - 1, SUBSEQUENT_DROP_BASE_COST),
           BigMul(BigIntOfNumber(getByteSize(StringifyTickets(tickets)) * Len(tickets)),
                  YOCTO_PER_BYTE))

dropDeposit(tickets) ==
    BigAdd(AddProduct(FIRST_DROP_BASE_COST, Len(tickets) - 1, SUBSEQUENT_DROP_BASE_COST),
           BigMul(BigIntOfNumber(getByteSize(StringifyTickets(tickets))), YOCTO_PER_BYTE))

funderMetaCost(eventMetadata) ==
    BigAdd(FUNDER_METADATA_BASE_COST,
           BigMul(BigIntOfNumber(getByteSize(StringifyEventMetadata(eventMetadata))),
                  YOCTO_PER_BYTE))

marketDeposit(marketTicketInfo) ==
    BigAdd(AddProduct(FIRST_MARKET_DROP_BASE_COST,
                      Cardinality(DOMAIN marketTicketInfo) - 1,
                      SUBSEQUENT_MARKET_DROP_BASE_COST),
           BigMul(BigMul(BigMul(BigIntOfNumber(numFreeKeys(marketTicketInfo)),
                                BigAdd(BASE_MARKET_BYTES_PER_KEY,
                                       METADATA_MARKET_BYTES_PER_KEY)),
                         YOCTO_PER_BYTE),
                  BigIntOfNumber(2)))

\* Mutation: the division of line 202 rounds up.
perDropRoundedUp(tickets) ==
    BigDiv(BigAdd(dropDeposit(tickets), BigIntOfNumber(Len(tickets) - 1)),
           BigIntOfNumber(Len(tickets)))

perDropOf(tickets) == BigDiv(dropDeposit(tickets), BigIntOfNumber(Len(tickets)))

\* Mutation: line 205 sums the per-drop share times the ticket count.
totalFromPerDrop(args) ==
    BigAdd(BigAdd(BigMul(BigDiv(dropDeposit(args.tickets),
                                BigIntOfNumber(Len(args.tickets))),
                         BigIntOfNumber(Len(args.tickets))),
                  funderMetaCost(args.eventMetadata)),
           marketDeposit(args.marketTicketInfo))

totalOf(args) ==
    BigAdd(BigAdd(dropDeposit(args.tickets), funderMetaCost(args.eventMetadata)),
           marketDeposit(args.marketTicketInfo))

NoCost == [perDrop |-> <<>>, perEvent |-> <<>>, marketListing |-> <<>>, total |-> <<>>]

\* The outcome of a call: the cost breakdown, or the RangeError that the
\* BigInt division by zero of line 202 throws for an empty ticket list.
calculateDepositCost(args) ==
    IF Len(args.tickets) = 0
    THEN [threw |-> "RangeError", costBreakdown |-> NoCost]
    ELSE [threw |-> "",
          costBreakdown |->
              [perDrop |-> BigIntToString(perDropOf(args.tickets)),
               perEvent |-> BigIntToString(funderMetaCost(args.eventMetadata)),
               marketListing |-> BigIntToString(marketDeposit(args.marketTicketInfo)),
               total |-> BigIntToString(totalOf(args))]]


(***************************************************************************)
(* serializeMediaForWorker: files, reading and encoding.                   *)
(***************************************************************************)
Base64Alphabet ==
    <<"A", "B", "C", "D", "E", "F", "G", "H", "I", "J", "K", "L", "M", "N", "O", "P",
      "Q", "R", "S", "T", "U", "V", "W", "X", "Y", "Z", "a", "b", "c", "d", "e", "f",
      "g", "h", "i", "j", "k", "l", "m", "n", "o", "p", "q", "r", "s", "t", "u", "v",
      "w", "x", "y", "z", "0", "1", "2", "3", "4", "5", "6", "7", "8", "9", "+", "/">>

RECURSIVE btoa(_)
\* window.btoa on a binary string, kept as the sequence of its character
\* codes (0..255): every three bytes give four characters, and a last group
\* of one or two bytes is padded with "=".
btoa(binary) ==
    IF binary = <<>> THEN ""
    ELSE LET n == Min(Len(binary), 3)
             b1 == binary[1]
             b2 == IF n >= 2 THEN binary[2] ELSE 0
             b3 == IF n >= 3 THEN binary[3] ELSE 0
         IN  Base64Alphabet[(b1 \div 4) + 1]
                 \o Base64Alphabet[((b1 % 4) * 16 + (b2 \div 16)) + 1]
                 \o (IF n >= 2 THEN Base64Alphabet[((b2 % 16) * 4 + (b3 \div 64)) + 1]
                     ELSE "=")
                 \o (IF n >= 3 THEN Base64Alphabet[(b3 % 64) + 1] ELSE "=")
                 \o btoa(SubSeq(binary, n + 1, Len(binary)))

\* Lines 259-267: the bytes of the buffer become the characters of a binary
\* string, which btoa encodes.
arrayBufferToBase64(buffer) == btoa([i \in 1..Len(buffer) |-> buffer[i] % 256])

\* Lines 210-228: the promise rejects with a TypeError for a value that is
\* not a File and with an Error when the reader reports an error; else it
\* resolves with the bytes of the file.
fileToArrayBuffer(file) ==
    IF ~file.isFile
    THEN [rejected |-> TRUE, error |-> "The provided value is not a File.", buffer |-> <<>>]
    ELSE IF file.unreadable
    THEN [rejected |-> TRUE, error |-> "File reading error: Unknown error", buffer |-> <<>>]
    ELSE [rejected |-> FALSE, error |-> "", buffer |-> file.bytes]

\* Mutation: the catch blocks push an empty string for the failed artwork.
AfterReadPushingEmpty(buffers, read) ==
    IF read.rejected THEN Append(buffers, "")
    ELSE Append(buffers, arrayBufferToBase64(read.buffer))

\* Lines 237-242 and 247-252: try { push the encoded buffer } catch { log }.
AfterRead(buffers, read) ==
    IF read.rejected THEN buffers
    ELSE Append(buffers, arrayBufferToBase64(read.buffer))

\* `artwork && artwork[0]` for an optional FileList.
HasFile(artwork) == artwork # Undefined /\ artwork[1] # <<>>

\* The first ticket from index `from` on whose artwork the loop reads, or 0.
NextTicketRead(form, from) ==
    LET reads == {i \in from..Len(form.tickets) : HasFile(form.tickets[i].artwork)}
    IN  IF reads = {} THEN 0 ELSE CHOOSE i \in reads : \A j \in reads : i <= j

MediaContents == {<<77>>, <<77, 97>>, <<255, 0, 110>>}

MediaFiles ==
    {[isFile |-> TRUE, unreadable |-> FALSE, bytes |-> b] : b \in MediaContents}
        \cup {[isFile |-> TRUE, unreadable |-> TRUE, bytes |-> <<77>>],
              [isFile |-> FALSE, unreadable |-> FALSE, bytes |-> <<>>]}

\* An optional FileList: undefined, empty, or holding one value.
MediaFileLists == {Undefined, Some(<<>>)} \cup {Some(<<f>>) : f \in MediaFiles}

MediaForms ==
    [eventArtwork : MediaFileLists,
     tickets : UNION {[1..n -> [artwork : MediaFileLists]] : n \in 0..MaxMediaTickets}]

NoMediaOutcome == [settled |-> "pending", error |-> "", value |-> <<>>]

MediaIdle ==
    /\ mediaForm = <<>>
    /\ mediaPc = "unused"
    /\ mediaIndex = 0
    /\ arrayBuffers = <<>>
    /\ mediaOutcome = NoMediaOutcome

(***************************************************************************)
(* createPayload: its arguments and the helpers it calls.                  *)
(***************************************************************************)
Calls == {1, 2}

KEYPOM_MARKETPLACE_CONTRACT == "marketplace"

accountId == "funder.near"

eventId == "ev1"

eventArtworkCid == "cidE"

\* ticket.name.replaceAll(' ', '').toLocaleLowerCase()
LowerCase(c) ==
    CASE c = "A" -> "a"
      [] c = "B" -> "b"
      [] OTHER -> c

Slug(name) ==
    LET kept == SelectSeq(name, LAMBDA c : c # " ")
    IN  [i \in 1..Len(kept) |-> LowerCase(kept[i])]

\* `${Date.now().toString()}-${slug}`
DropId(t, name) == ToString(t) \o "-" \o Join(Slug(name))

\* Date.parse, on the date strings the forms drawn carry.
DateParse(str) == IF str = "2024-05-01" THEN "1714521600000" ELSE NaN

RECURSIVE SplitOnDot(_)
\* String.prototype.split('.')
SplitOnDot(str) ==
    IF \A i \in 1..Len(str) : str[i] # "."
    THEN <<str>>
    ELSE LET d == CHOOSE i \in 1..Len(str) :
                      str[i] = "." /\ \A j \in 1..(i - 1) : str[j] # "."
         IN  <<SubSeq(str, 1, d - 1)>> \o SplitOnDot(SubSeq(str, d + 1, Len(str)))

RECURSIVE TrimLeadingZeroes(_)
TrimLeadingZeroes(str) ==
    IF str = <<>> THEN <<"0">>
    ELSE IF Head(str) = "0" THEN TrimLeadingZeroes(Tail(str))
    ELSE str

NEAR_NOMINATION_EXP == 24

\* parseNearAmount of near-api-js: null for an empty amount, an Error for more
\* than one dot or more than 24 decimals, else the amount in yoctoNEAR.  The
\* prices drawn hold no commas or spaces.
parseNearAmount(amt) ==
    IF amt = <<>> THEN [kind |-> "null", value |-> <<>>]
    ELSE LET split == SplitOnDot(amt)
             wholePart == split[1]
             fracPart == IF Len(split) > 1 THEN split[2] ELSE <<>>
         IN  IF Len(split) > 2 \/ Len(fracPart) > NEAR_NOMINATION_EXP
             THEN [kind |-> "throws", value |-> <<>>]
             ELSE [kind |-> "value",
                   value |-> TrimLeadingZeroes(
                       wholePart \o fracPart
                           \o [i \in 1..(NEAR_NOMINATION_EXP - Len(fracPart)) |-> "0"])]

\* JSON.stringify of a TicketMetadataExtra.
StringifyTicketExtra(x) ==
    JSONObject(<<JSONMember("dateCreated", Some(JSONString(x.dateCreated))),
                 JSONMember("priceNear", Some(JSONString(Join(x.priceNear)))),
                 JSONMember("priceFiat", Some(JSONString(Join(x.priceFiat)))),
                 JSONMember("maxSupply", OptJSONInt(x.maxSupply)),
                 JSONMember("limitPerUser", OptJSONInt(x.limitPerUser)),
                 JSONMember("eventId", Some(JSONString(x.eventId)))>>)

RECURSIVE JSONEscape(_)
\* The text of a string inside a JSON string literal: a quote or a backslash
\* is preceded by a backslash.
JSONEscape(str) ==
    IF str = "" THEN ""
    ELSE LET c == SubSeq(str, 1, 1)
         IN  (IF c = "\"" \/ c = "\\" THEN "\\" \o c ELSE c)
                 \o JSONEscape(SubSeq(str, 2, Len(str)))

\* JSON.stringify of a TicketInfoMetadata, the token metadata of a drop; its
\* extra property is itself JSON text.
StringifyTicketNftInfo(t) ==
    JSONObject(<<JSONMember("name", Some(JSONString(Join(t.name)))),
                 JSONMember("description", OptJSONString(t.description)),
                 JSONMember("artwork", Some(JSONString(t.artwork))),
                 JSONMember("extra", Some(JSONString(JSONEscape(t.extra))))>>)

\* JSON.stringify of the funder metadata map, whose entries refer to the
\* invocation's eventMetadata object.
StringifyFunderMetadata(keys, eventMetadata) ==
    JSONObject([i \in 1..Len(keys) |->
                   JSONMember(keys[i], Some(StringifyEventMetadata(eventMetadata)))])

\* obj[key] = value on an object used as a map.
PutKey(obj, key, value) ==
    [k \in DOMAIN obj \cup {key} |-> IF k = key THEN value ELSE obj[k]]

\* Opaque results of the Web Crypto helpers.
GeneratedKeyPair == [publicKey |-> "pub", privateKey |-> "priv"]

RandomSalts == {"salt1", "salt2"}

DerivedKey(masterKey, saltBase64) == masterKey \o "/" \o saltBase64

EncryptedPrivateKey(privateKey, symmetricKey) ==
    [encryptedPrivateKeyBase64 |-> "enc(" \o privateKey \o "," \o symmetricKey \o ")",
     ivBase64 |-> "iv1"]

(***************************************************************************)
(* The forms and argument arrays drawn.                                    *)
(***************************************************************************)
TicketTypes ==
    {[name |-> <<"A">>, denomination |-> "Near", maxSupply |-> Some(100),
      priceNear |-> Some(<<"0">>), description |-> Undefined],
     [name |-> <<"a", " ">>, denomination |-> "Near", maxSupply |-> Undefined,
      priceNear |-> Undefined, description |-> Some("d")],
     [name |-> <<"B">>, denomination |-> "Near", maxSupply |-> Some(1),
      priceNear |-> Some(<<"1", ".", "5">>), description |-> Undefined],
     [name |-> <<"B">>, denomination |-> "Near", maxSupply |-> Some(1),
      priceNear |-> Some(<<>>), description |-> Undefined]}

Forms ==
    [name : {"E"}, description : {Some("party")}, location : {"L"},
     date : {"2024-05-01"}, startTime : {Some("9:00 AM")}, endTime : {Undefined},
     acceptStripePayments : {FALSE}, stripeAccountId : {Undefined},
     tickets : UNION {[1..n -> TicketTypes] : n \in 0..MaxTickets}]

\* The i-th reference of a list is "cid<i>"; the first may be "", the
\* reference of an artwork whose upload failed.
CidLists ==
    UNION {{cids \in [1..n -> {""} \cup {"cid" \o ToString(i) : i \in 1..MaxCids}] :
               \A i \in 1..n : cids[i] = "cid" \o ToString(i) \/ (i = 1 /\ cids[i] = "")} :
           n \in 0..MaxCids}

MasterKeys == {Undefined, Some(""), Some("mk")}

InitLocals ==
    [eventMetadata |-> <<>>, funderMetadata |-> <<>>, keyPair |-> <<>>,
     saltBase64 |-> "", symmetricKey |-> "", encrypted |-> <<>>,
     drop_ids |-> <<>>, drop_configs |-> <<>>, asset_datas |-> <<>>,
     ticket_information |-> <<>>, costBreakdown |-> NoCost]

NoOutcome == [settled |-> "pending", error |-> "", actions |-> <<>>, dropIds |-> <<>>]


(***************************************************************************)
(* createPayload as a process: an invocation runs synchronously from one   *)
(* await to the next; while it runs no other invocation takes a step.      *)
(***************************************************************************)
Settle(c, how, error, actions, dropIds) ==
    outcome' = [outcome EXCEPT ![c] =
                   [settled |-> how, error |-> error, actions |-> actions,
                    dropIds |-> dropIds]]

Reject(c, error) ==
    /\ Settle(c, "rejected", error, <<>>, <<>>)
    /\ pc' = [pc EXCEPT ![c] = "rejected"]
    /\ running' = 0

\* Mutation: the guard of line 387 is dropped.
MasterKeyNeverMissing(masterKey) == FALSE

\* !masterKey: null and the empty string are both missing.
MasterKeyMissing(masterKey) == masterKey = Undefined \/ masterKey = Some("")

\* Lines 385-416: read MASTER_KEY, throw if it is missing, else build the
\* event metadata and call generateKeyPair.
Invoke(c) ==
    /\ pc[c] = "idle"
    /\ running = 0
    /\ IF MasterKeyMissing(localStorage)
       THEN /\ Reject(c, "Missing local storage value MASTER_KEY inside createPayload()")
            /\ UNCHANGED locals
       ELSE /\ locals' = [locals EXCEPT ![c].eventMetadata =
                   Some([name |-> formData.name,
                         dateCreated |-> ToString(now),
                         description |-> formData.description,
                         location |-> formData.location,
                         date |-> [startDate |-> DateParse(formData.date),
                                   startTime |-> formData.startTime,
                                   endDate |-> DateParse(OrElse(formData.endTime, "")),
                                   endTime |-> formData.endTime],
                         artwork |-> eventArtworkCid,
                         id |-> eventId,
                         pubKey |-> Undefined, encPrivKey |-> Undefined,
                         iv |-> Undefined, salt |-> Undefined])]
            /\ pc' = [pc EXCEPT ![c] = "awaitKeyPair"]
            /\ UNCHANGED <<running, outcome>>
    /\ supplied' = [supplied EXCEPT ![c] = ticketArtworkCids]
    /\ UNCHANGED <<localStorage, now, formData, ticketArtworkCids, estVars, mediaVars>>

\* Lines 416-419: the key pair arrives; draw the salt and call
\* deriveKeyFromPassword.
ResumeKeyPair(c) ==
    /\ pc[c] = "awaitKeyPair"
    /\ running = 0
    /\ \E salt \in RandomSalts :
          locals' = [locals EXCEPT ![c].keyPair = Some(GeneratedKeyPair),
                                   ![c].saltBase64 = salt]
    /\ pc' = [pc EXCEPT ![c] = "awaitDerive"]
    /\ UNCHANGED <<localStorage, now, formData, ticketArtworkCids, supplied, running,
                   outcome, estVars, mediaVars>>

\* Lines 419-420: the symmetric key arrives; call encryptPrivateKey.
ResumeDerive(c) ==
    /\ pc[c] = "awaitDerive"
    /\ running = 0
    /\ locals' = [locals EXCEPT ![c].symmetricKey =
                     DerivedKey(OrElse(localStorage, "null"), locals[c].saltBase64)]
    /\ pc' = [pc EXCEPT ![c] = "awaitEncrypt"]
    /\ UNCHANGED <<localStorage, now, formData, ticketArtworkCids, supplied, running,
                   outcome, estVars, mediaVars>>

\* Lines 420-422: the encrypted private key arrives; call
\* exportPublicKeyToBase64.
ResumeEncrypt(c) ==
    /\ pc[c] = "awaitEncrypt"
    /\ running = 0
    /\ locals' = [locals EXCEPT ![c].encrypted =
                     Some(EncryptedPrivateKey(locals[c].keyPair[1].privateKey,
                                              locals[c].symmetricKey))]
    /\ pc' = [pc EXCEPT ![c] = "awaitExport"]
    /\ UNCHANGED <<localStorage, now, formData, ticketArtworkCids, supplied, running,
                   outcome, estVars, mediaVars>>

\* Mutation: line 425 is missing, so no salt is attached.
AttachEncryptionWithoutSalt(eventMetadata, pubKey, encrypted, salt) ==
    [eventMetadata EXCEPT !.pubKey = Some(pubKey),
                          !.encPrivKey = Some(encrypted.encryptedPrivateKeyBase64),
                          !.iv = Some(encrypted.ivBase64)]

\* Lines 422-425: the four encryption fields are attached to the event
\* metadata.
AttachEncryption(eventMetadata, pubKey, encrypted, salt) ==
    [eventMetadata EXCEPT !.pubKey = Some(pubKey),
                          !.encPrivKey = Some(encrypted.encryptedPrivateKeyBase64),
                          !.iv = Some(encrypted.ivBase64),
                          !.salt = Some(salt)]

\* Lines 422-425: the exported public key arrives.  From here to the return
\* the code is synchronous.
ResumeExport(c) ==
    /\ pc[c] = "awaitExport"
    /\ running = 0
    /\ locals' = [locals EXCEPT ![c].eventMetadata =
                     Some(AttachEncryption(@[1], locals[c].keyPair[1].publicKey,
                                           locals[c].encrypted[1],
                                           locals[c].saltBase64))]
    /\ pc' = [pc EXCEPT ![c] = "funder"]
    /\ running' = c
    /\ UNCHANGED <<localStorage, now, formData, ticketArtworkCids, supplied, outcome,
                   estVars, mediaVars>>

\* A promise of a crypto helper rejects; the await rethrows.
AwaitRejects(c) ==
    /\ pc[c] \in {"awaitKeyPair", "awaitDerive", "awaitEncrypt", "awaitExport"}
    /\ running = 0
    /\ Reject(c, "crypto helper failed")
    /\ UNCHANGED <<localStorage, now, formData, ticketArtworkCids, supplied, locals,
                   estVars, mediaVars>>

\* Line 428: funderMetadata[eventId] = eventMetadata.  The map is kept as the
\* sequence of its keys; every entry refers to the eventMetadata object.
PutFunderEntry(funderMetadata, key) ==
    IF \E i \in 1..Len(funderMetadata) : funderMetadata[i] = key
    THEN funderMetadata
    ELSE Append(funderMetadata, key)

WriteFunderMetadata(c) ==
    /\ pc[c] = "funder"
    /\ running = c
    /\ locals' = [locals EXCEPT ![c].funderMetadata = PutFunderEntry(@, eventId)]
    /\ pc' = [pc EXCEPT ![c] = "loop"]
    /\ UNCHANGED <<localStorage, now, formData, ticketArtworkCids, supplied, running,
                   outcome, estVars, mediaVars>>


\* Mutation: line 456 takes the last reference (pop) instead of the first.
PoppedArtwork(cids) == IF cids = <<>> THEN "" ELSE cids[Len(cids)]

\* ticketArtworkCids.shift() || ''
ShiftedArtwork(cids) == IF cids = <<>> THEN "" ELSE Head(cids)

AfterShift(cids) == IF cids = <<>> THEN <<>> ELSE Tail(cids)

AssetData == <<[uses |-> 2, assets |-> <<"null">>, config |-> [permissions |-> "claim"]]>>

\* Lines 438-487: one iteration of the loop over formData.tickets.  Date.now()
\* is read twice; the clock may advance between the reads.
LoopIteration(c) ==
    /\ pc[c] = "loop"
    /\ running = c
    /\ Len(locals[c].drop_ids) < Len(formData.tickets)
    /\ \E later \in {now, Min(now + 1, MaxNow)} :
          LET ticket == formData.tickets[Len(locals[c].drop_ids) + 1]
              dropId == DropId(now, ticket.name)
              ticketExtra ==
                  [dateCreated |-> ToString(later),
                   priceNear |-> OrElse(ticket.priceNear, <<"0">>),
                   priceFiat |-> <<"0">>,
                   maxSupply |-> ticket.maxSupply,
                   limitPerUser |-> Undefined,
                   eventId |-> eventId]
              ticketNftInfo ==
                  [name |-> ticket.name,
                   description |-> ticket.description,
                   artwork |-> ShiftedArtwork(ticketArtworkCids),
                   extra |-> StringifyTicketExtra(ticketExtra)]
              price == parseNearAmount(OrElse(ticket.priceNear, <<"0">>))
              dropConfig ==
                  [nft_keys_config |-> [token_metadata |-> ticketNftInfo],
                   add_key_allowlist |-> <<KEYPOM_MARKETPLACE_CONTRACT>>,
                   transfer_key_allowlist |-> <<KEYPOM_MARKETPLACE_CONTRACT>>]
          IN  /\ now' = later
              /\ ticketArtworkCids' = AfterShift(ticketArtworkCids)
              /\ IF price.kind = "value"
                 THEN /\ locals' = [locals EXCEPT
                             ![c].ticket_information =
                                 PutKey(@, dropId,
                                        [max_tickets |-> OrElse(ticket.maxSupply, 0),
                                         price |-> price.value]),
                             ![c].drop_ids = Append(@, dropId),
                             ![c].asset_datas = Append(@, AssetData),
                             ![c].drop_configs = Append(@, dropConfig)]
                      /\ UNCHANGED <<pc, running, outcome>>
                 ELSE /\ Reject(c, IF price.kind = "null"
                                   THEN "TypeError: null has no toString"
                                   ELSE "Cannot parse as NEAR amount")
                      /\ UNCHANGED locals
    /\ UNCHANGED <<localStorage, formData, supplied, estVars, mediaVars>>

\* Lines 489-493: the loop is over; the Deposit Estimator is called.
CallEstimator(c) ==
    /\ pc[c] = "loop"
    /\ running = c
    /\ Len(locals[c].drop_ids) = Len(formData.tickets)
    /\ LET r == calculateDepositCost(
                    [eventMetadata |-> locals[c].eventMetadata[1],
                     tickets |-> formData.tickets,
                     marketTicketInfo |-> locals[c].ticket_information])
       IN  IF r.threw # ""
           THEN /\ Reject(c, r.threw)
                /\ UNCHANGED locals
           ELSE /\ locals' = [locals EXCEPT ![c].costBreakdown = r.costBreakdown]
                /\ pc' = [pc EXCEPT ![c] = "assemble"]
                /\ UNCHANGED <<running, outcome>>
    /\ UNCHANGED <<localStorage, now, formData, ticketArtworkCids, supplied, estVars, mediaVars>>

GAS == "300000000000000"

\* Lines 495-522: the action array.  The JSON text of on_success.args is
\* kept as the value it parses to.
ActionsWith(l, deposit, attached_deposit) ==
    <<[type |-> "FunctionCall",
       params |->
           [methodName |-> "create_drop_batch",
            args |->
                [drop_ids |-> l.drop_ids,
                 drop_configs |-> l.drop_configs,
                 asset_datas |-> l.asset_datas,
                 change_user_metadata |->
                     StringifyFunderMetadata(l.funderMetadata, l.eventMetadata[1]),
                 on_success |->
                     [receiver_id |-> KEYPOM_MARKETPLACE_CONTRACT,
                      method_name |-> "create_event",
                      args |-> [event_id |-> eventId,
                                funder_id |-> accountId,
                                ticket_information |-> l.ticket_information,
                                stripe_status |-> formData.acceptStripePayments,
                                stripe_account_id |-> formData.stripeAccountId],
                      attached_deposit |-> attached_deposit]],
            gas |-> GAS,
            deposit |-> deposit]]>>

\* Mutation: lines 515 and 519 are swapped.
BuildActionsSwapped(l) ==
    ActionsWith(l, l.costBreakdown.marketListing, l.costBreakdown.total)

BuildActions(l) ==
    ActionsWith(l, l.costBreakdown.total, l.costBreakdown.marketListing)

\* Lines 495-524: assemble the actions and return.
Assemble(c) ==
    /\ pc[c] = "assemble"
    /\ running = c
    /\ Settle(c, "resolved", "", BuildActions(locals[c]), locals[c].drop_ids)
    /\ pc' = [pc EXCEPT ![c] = "done"]
    /\ running' = 0
    /\ UNCHANGED <<localStorage, now, formData, ticketArtworkCids, supplied, locals,
                   estVars, mediaVars>>

\* A millisecond passes.
Tick ==
    /\ now < MaxNow
    /\ now' = now + 1
    /\ UNCHANGED <<localStorage, formData, ticketArtworkCids, supplied, pc, running,
                   locals, outcome, estVars, mediaVars>>

PayloadIdle ==
    /\ localStorage = Undefined
    /\ now = 0
    /\ formData = <<>>
    /\ ticketArtworkCids = <<>>
    /\ supplied = [c \in Calls |-> <<>>]
    /\ pc = [c \in Calls |-> "unused"]
    /\ running = 0
    /\ locals = [c \in Calls |-> InitLocals]
    /\ outcome = [c \in Calls |-> NoOutcome]

\* One invocation of createPayload on arguments drawn from the bounded sets.
Init ==
    /\ estArgs = <<>>
    /\ estResult = <<>>
    /\ estPrev = <<>>
    /\ localStorage \in MasterKeys
    /\ now = 0
    /\ formData \in Forms
    /\ ticketArtworkCids \in CidLists
    /\ supplied = [c \in Calls |-> <<>>]
    /\ pc = [c \in Calls |-> IF c = 1 THEN "idle" ELSE "unused"]
    /\ running = 0
    /\ locals = [c \in Calls |-> InitLocals]
    /\ outcome = [c \in Calls |-> NoOutcome]
    /\ MediaIdle

Next ==
    \/ \E c \in Calls :
          \/ Invoke(c)
          \/ ResumeKeyPair(c)
          \/ ResumeDerive(c)
          \/ ResumeEncrypt(c)
          \/ ResumeExport(c)
          \/ AwaitRejects(c)
          \/ WriteFunderMetadata(c)
          \/ LoopIteration(c)
          \/ CallEstimator(c)
          \/ Assemble(c)
    \/ Tick

Spec == Init /\ [][Next]_vars

(***************************************************************************)
(* Calls of calculateDepositCost on arguments drawn from bounded sets.     *)
(***************************************************************************)
Supplies == (0..MaxSupply) \cup {100}

EstPrices == {<<"0">>, <<"0", "0">>, <<"1">>}

EstKeys == {"7-a", "7-b"}

EstListings ==
    UNION {[keys -> [max_tickets : Supplies, price : EstPrices]] :
               keys \in SUBSET EstKeys}

EstTicketA ==
    [name |-> <<"A">>, denomination |-> "Near", maxSupply |-> Some(1),
     priceNear |-> Some(<<"0">>), description |-> Undefined]

EstTicketB ==
    [name |-> <<"b", " ", "c">>, denomination |-> "Near", maxSupply |-> Undefined,
     priceNear |-> Undefined, description |-> Some("d")]

\* For every n up to the bound: n tickets B, n tickets A, and one ticket A
\* followed by n - 1 tickets B.
EstTicketLists ==
    {[i \in 1..n |-> IF i <= j THEN EstTicketA ELSE EstTicketB] :
        n \in 0..MaxEstTickets, j \in {0, 1, MaxEstTickets + 1}}

EstEvents ==
    {[name |-> "E", dateCreated |-> "7", description |-> d, location |-> "L",
      date |-> [startDate |-> NaN, startTime |-> Undefined,
                endDate |-> NaN, endTime |-> Undefined],
      artwork |-> "", id |-> "1",
      pubKey |-> Some("p"), encPrivKey |-> Some("e"), iv |-> Some("i"),
      salt |-> Some("s")] : d \in {Some("party")}}

EstInit ==
    /\ estArgs \in [eventMetadata : EstEvents, tickets : EstTicketLists,
                    marketTicketInfo : EstListings]
    /\ estResult = <<>>
    /\ estPrev = <<>>
    /\ PayloadIdle
    /\ MediaIdle

\* The caller estimates the cost of the current arguments.
Estimate ==
    /\ estResult = <<>>
    /\ estResult' = <<calculateDepositCost(estArgs)>>
    /\ UNCHANGED <<estArgs, estPrev, payloadVars, mediaVars>>

\* The caller makes a priced listing free and estimates again.
MakeListingFree ==
    /\ estResult # <<>>
    /\ \E k \in DOMAIN estArgs.marketTicketInfo :
          /\ estArgs.marketTicketInfo[k].price # <<"0">>
          /\ estArgs' = [estArgs EXCEPT !.marketTicketInfo[k].price = <<"0">>]
    /\ estResult' = <<calculateDepositCost(estArgs')>>
    /\ estPrev' = estResult
    /\ UNCHANGED <<payloadVars, mediaVars>>

\* The caller adds a free listing and estimates again.
AddFreeListing ==
    /\ estResult # <<>>
    /\ \E k \in EstKeys \ DOMAIN estArgs.marketTicketInfo, m \in Supplies :
          estArgs' = [estArgs EXCEPT !.marketTicketInfo =
                         [x \in DOMAIN @ \cup {k} |->
                             IF x = k THEN [max_tickets |-> m, price |-> <<"0">>]
                             ELSE @[x]]]
    /\ estResult' = <<calculateDepositCost(estArgs')>>
    /\ estPrev' = estResult
    /\ UNCHANGED <<payloadVars, mediaVars>>

\* The caller raises the max_tickets of a listing and estimates again.
RaiseMaxTickets ==
    /\ estResult # <<>>
    /\ \E k \in DOMAIN estArgs.marketTicketInfo :
          /\ estArgs.marketTicketInfo[k].max_tickets + 1 \in Supplies
          /\ estArgs' = [estArgs EXCEPT !.marketTicketInfo[k].max_tickets = @ + 1]
    /\ estResult' = <<calculateDepositCost(estArgs')>>
    /\ estPrev' = estResult
    /\ UNCHANGED <<payloadVars, mediaVars>>

EstNext == Estimate \/ MakeListingFree \/ AddFreeListing \/ RaiseMaxTickets

SpecEstimate == EstInit /\ [][EstNext]_vars

(***************************************************************************)
(* Calls of calculateDepositCost before and after the caller lengthens the *)
(* text of a ticket or of the event, the counts of tickets and listings    *)
(* staying as they are.                                                    *)
(***************************************************************************)
LinListings ==
    {info \in EstListings : DOMAIN info = {"7-a"} /\ info["7-a"].max_tickets = 100}

LinTicketLists == {tickets \in EstTicketLists : Len(tickets) <= MaxLinTickets}

LongerDescriptions == {Some("dd"), Some("a longer text")}

LongerEventNames == {"Evening"}

LinInit ==
    /\ estArgs \in [eventMetadata : EstEvents, tickets : LinTicketLists,
                    marketTicketInfo : LinListings]
    /\ estResult = <<>>
    /\ estPrev = <<>>
    /\ PayloadIdle
    /\ MediaIdle

\* The caller gives the first or the last ticket a longer description and
\* estimates again.
LengthenTicket ==
    /\ estResult # <<>>
    /\ \E i \in {1, Len(estArgs.tickets)} \cap DOMAIN estArgs.tickets,
          d \in LongerDescriptions :
          /\ getByteSize(StringifyTicket([estArgs.tickets[i] EXCEPT !.description = d]))
                 > getByteSize(StringifyTicket(estArgs.tickets[i]))
          /\ estArgs' = [estArgs EXCEPT !.tickets[i].description = d]
    /\ estResult' = <<calculateDepositCost(estArgs')>>
    /\ estPrev' = estResult
    /\ UNCHANGED <<payloadVars, mediaVars>>

\* The caller gives the event a longer name and estimates again.
LengthenEvent ==
    /\ estResult # <<>>
    /\ \E name \in LongerEventNames :
          /\ Len(name) > Len(estArgs.eventMetadata.name)
          /\ estArgs' = [estArgs EXCEPT !.eventMetadata.name = name]
    /\ estResult' = <<calculateDepositCost(estArgs')>>
    /\ estPrev' = estResult
    /\ UNCHANGED <<payloadVars, mediaVars>>

LinNext == Estimate \/ LengthenTicket \/ LengthenEvent

SpecLinear == LinInit /\ [][LinNext]_vars

(***************************************************************************)
(* serializeMediaForWorker as a process: it runs synchronously from one    *)
(* await of fileToArrayBuffer to the next.                                 *)
(***************************************************************************)
\* Lines 245-256: with `buffers` collected, the loop goes on from ticket
\* `from` to the next artwork it reads, or returns the array.
MediaContinue(buffers, from) ==
    LET i == NextTicketRead(mediaForm, from)
    IN  /\ arrayBuffers' = buffers
        /\ IF i = 0
           THEN /\ mediaPc' = "done"
                /\ mediaOutcome' = [settled |-> "resolved", error |-> "", value |-> buffers]
                /\ UNCHANGED mediaIndex
           ELSE /\ mediaPc' = "readTicket"
                /\ mediaIndex' = i
                /\ UNCHANGED mediaOutcome

\* Lines 231-238: return [] without event artwork, else start reading it,
\* or go on to the tickets when the list is empty.
MediaInvoke ==
    /\ mediaPc = "idle"
    /\ IF mediaForm.eventArtwork = Undefined
       THEN /\ mediaPc' = "done"
            /\ mediaOutcome' = [settled |-> "resolved", error |-> "", value |-> <<>>]
            /\ UNCHANGED <<mediaIndex, arrayBuffers>>
       ELSE IF HasFile(mediaForm.eventArtwork)
       THEN /\ mediaPc' = "readEvent"
            /\ UNCHANGED <<mediaIndex, arrayBuffers, mediaOutcome>>
       ELSE MediaContinue(<<>>, 1)
    /\ UNCHANGED <<mediaForm, estVars, payloadVars>>

\* Lines 238-243: the read of the event artwork settles.
MediaResumeEvent ==
    /\ mediaPc = "readEvent"
    /\ MediaContinue(AfterRead(arrayBuffers,
                               fileToArrayBuffer(mediaForm.eventArtwork[1][1])),
                     1)
    /\ UNCHANGED <<mediaForm, estVars, payloadVars>>

\* Lines 248-253: the read of a ticket artwork settles.
MediaResumeTicket ==
    /\ mediaPc = "readTicket"
    /\ MediaContinue(AfterRead(arrayBuffers,
                               fileToArrayBuffer(
                                   mediaForm.tickets[mediaIndex].artwork[1][1])),
                     mediaIndex + 1)
    /\ UNCHANGED <<mediaForm, estVars, payloadVars>>

MediaInit ==
    /\ estArgs = <<>>
    /\ estResult = <<>>
    /\ estPrev = <<>>
    /\ PayloadIdle
    /\ mediaForm \in MediaForms
    /\ mediaPc = "idle"
    /\ mediaIndex = 0
    /\ arrayBuffers = <<>>
    /\ mediaOutcome = NoMediaOutcome

MediaNext == MediaInvoke \/ MediaResumeEvent \/ MediaResumeTicket

SpecMedia == MediaInit /\ [][MediaNext]_vars

(***************************************************************************)
(* Properties of calculateDepositCost, checked under SpecEstimate.         *)
(***************************************************************************)
EstReturned == estResult # <<>> /\ estResult[1].threw = ""

EstCost == estResult[1].costBreakdown

\* FIRST_DROP_BASE_COST + (n - 1) * SUBSEQUENT_DROP_BASE_COST
\*     + byteSize(serialize(tickets)) * YOCTO_PER_BYTE, for n >= 1.
ExpectedDropDeposit(tickets) ==
    BigAdd(BigAdd(FIRST_DROP_BASE_COST,
                  BigMul(BigIntOfNumber(Len(tickets) - 1), SUBSEQUENT_DROP_BASE_COST)),
           BigMul(BigIntOfNumber(Len(StringifyTickets(tickets))), YOCTO_PER_BYTE))

\* dropDeposit - perDrop * n for the call whose result is held.
DropRemainder ==
    BigSub(ExpectedDropDeposit(estArgs.tickets),
           BigMul(BigIntOfString(EstCost.perDrop),
                  BigIntOfNumber(Len(estArgs.tickets))))

\* C1: for a call with at least one ticket and at least one listing, the
\* returned total is exactly dropDeposit + perEvent + marketListing, with
\* dropDeposit the undivided drop deposit.
TotalIsUndividedSum ==
    (estResult # <<>> /\ Len(estArgs.tickets) >= 1
        /\ DOMAIN estArgs.marketTicketInfo # {})
    => /\ estResult[1].threw = ""
       /\ BigIntOfString(EstCost.total) =
              BigAdd(BigAdd(ExpectedDropDeposit(estArgs.tickets),
                            BigIntOfString(EstCost.perEvent)),
                     BigIntOfString(EstCost.marketListing))

\* A call whose per-drop share was truncated has returned a total.
TotalWitness ==
    /\ EstReturned
    /\ DOMAIN estArgs.marketTicketInfo # {}
    /\ DropRemainder # <<0>>

\* C2: for n >= 1 tickets, perDrop * n <= dropDeposit and the difference is
\* the remainder of dropDeposit divided by n, at least 0 and less than n.
PerDropTruncates ==
    (estResult # <<>> /\ Len(estArgs.tickets) >= 1)
    => LET n == Len(estArgs.tickets)
           share == BigMul(BigIntOfString(EstCost.perDrop), BigIntOfNumber(n))
       IN  /\ estResult[1].threw = ""
           /\ BigLeq(share, ExpectedDropDeposit(estArgs.tickets))
           /\ BigLess(DropRemainder, BigIntOfNumber(n))
           /\ DropRemainder =
                  BigIntOfNumber(RemainderFrom(ExpectedDropDeposit(estArgs.tickets), 1, n))

\* Several tickets whose drop deposit does not divide evenly.
PerDropWitness ==
    /\ EstReturned
    /\ Len(estArgs.tickets) >= 2
    /\ BigLess(BigMul(BigIntOfString(EstCost.perDrop),
                      BigIntOfNumber(Len(estArgs.tickets))),
               ExpectedDropDeposit(estArgs.tickets))

RECURSIVE FreeAllowances(_, _)
\* The sum over the listings priced "0" of
\* max_tickets * (BASE + METADATA bytes per key) * YOCTO_PER_BYTE * 2.
FreeAllowances(info, keys) ==
    IF keys = {} THEN <<0>>
    ELSE LET k == CHOOSE x \in keys : TRUE
             allowance ==
                 IF info[k].price = <<"0">>
                 THEN BigMul(BigIntOfNumber(info[k].max_tickets * (800 + 900)),
                             BigMul(YOCTO_PER_BYTE, <<2>>))
                 ELSE <<0>>
         IN  BigAdd(allowance, FreeAllowances(info, keys \ {k}))

\* C3: with k >= 1 listings, marketListing is the base cost of k listings
\* plus the allowance of every listing priced "0" and of no other.
MarketListingFormula ==
    (EstReturned /\ DOMAIN estArgs.marketTicketInfo # {})
    => BigIntOfString(EstCost.marketListing) =
           BigAdd(BigAdd(FIRST_MARKET_DROP_BASE_COST,
                         BigMul(BigIntOfNumber(Cardinality(DOMAIN estArgs.marketTicketInfo) - 1),
                                SUBSEQUENT_MARKET_DROP_BASE_COST)),
                  FreeAllowances(estArgs.marketTicketInfo,
                                 DOMAIN estArgs.marketTicketInfo))

\* One free listing of 100 tickets: 11790000000000000000000 + 100 * 1700 *
\* 15000000000000000000 * 2 yoctoNEAR.
MarketListingWitness ==
    /\ EstReturned
    /\ \E k \in EstKeys :
          /\ DOMAIN estArgs.marketTicketInfo = {k}
          /\ estArgs.marketTicketInfo[k] = [max_tickets |-> 100, price |-> <<"0">>]
    /\ Join(EstCost.marketListing) = "5111790000000000000000000"

\* C10: making a listing free, adding a free listing or raising the
\* max_tickets of a listing never lowers marketListing: the outcome that such
\* a change replaced (estPrev) holds no larger marketListing.
MarketListingMonotone ==
    (estPrev # <<>> /\ estPrev[1].threw = "" /\ EstReturned)
    => BigLeq(BigIntOfString(estPrev[1].costBreakdown.marketListing),
              BigIntOfString(EstCost.marketListing))

\* A change of the listings has raised marketListing.
MonotoneWitness ==
    /\ estPrev # <<>>
    /\ estPrev[1].threw = ""
    /\ EstReturned
    /\ BigLess(BigIntOfString(estPrev[1].costBreakdown.marketListing),
               BigIntOfString(EstCost.marketListing))

(***************************************************************************)
(* Linearity of calculateDepositCost, checked under SpecLinear.            *)
(***************************************************************************)
\* The drop deposit that a returned cost breakdown contains:
\* total - perEvent - marketListing.
DropDepositIn(cost) ==
    BigSub(BigSub(BigIntOfString(cost.total), BigIntOfString(cost.perEvent)),
           BigIntOfString(cost.marketListing))

TicketBytes(args) == getByteSize(StringifyTickets(args.tickets))

EventBytes(args) == getByteSize(StringifyEventMetadata(args.eventMetadata))

BytesCost(d) == BigMul(BigIntOfNumber(d), YOCTO_PER_BYTE)

\* C11: between two estimates with the same numbers of tickets and listings,
\* d more bytes of serialized tickets raise the drop deposit by exactly
\* d * YOCTO_PER_BYTE and leave perEvent and marketListing as they were, and
\* d more bytes of serialized event metadata raise perEvent by exactly
\* d * YOCTO_PER_BYTE and leave the drop deposit and marketListing as they
\* were.
DepositsLinearInBytes ==
    [][(/\ EstReturned
        /\ estResult' # <<>>
        /\ Len(estArgs'.tickets) = Len(estArgs.tickets)
        /\ estArgs'.marketTicketInfo = estArgs.marketTicketInfo
        /\ TicketBytes(estArgs') >= TicketBytes(estArgs)
        /\ EventBytes(estArgs') >= EventBytes(estArgs))
       => LET before == estResult[1].costBreakdown
              after == estResult'[1].costBreakdown
          IN  /\ estResult'[1].threw = ""
              /\ DropDepositIn(after) =
                     BigAdd(DropDepositIn(before),
                            BytesCost(TicketBytes(estArgs') - TicketBytes(estArgs)))
              /\ BigIntOfString(after.perEvent) =
                     BigAdd(BigIntOfString(before.perEvent),
                            BytesCost(EventBytes(estArgs') - EventBytes(estArgs)))
              /\ after.marketListing = before.marketListing]_vars

\* Of several tickets one has been given a longer description, and the last
\* estimate followed a lengthening of the event name that raised perEvent.
LinearWitness ==
    /\ EstReturned
    /\ estPrev # <<>>
    /\ estPrev[1].threw = ""
    /\ Len(estArgs.tickets) >= 2
    /\ \E i \in DOMAIN estArgs.tickets :
          estArgs.tickets[i].description \in LongerDescriptions
    /\ BigLess(BigIntOfString(estPrev[1].costBreakdown.perEvent),
               BigIntOfString(EstCost.perEvent))

(***************************************************************************)
(* Properties of createPayload, checked under Spec.                        *)
(***************************************************************************)
MissingKeyError == "Missing local storage value MASTER_KEY inside createPayload()"

TheAction(c) == outcome[c].actions[1]

Resolved(c) == outcome[c].settled = "resolved"

\* C4: with no master key stored, the call rejects in its first step, and
\* neither that step nor any later one generates a key pair or a salt,
\* consumes an artwork reference, calls the estimator or returns actions.
MissingKeyRejectsFirst ==
    [][\A c \in Calls :
          /\ (localStorage = Undefined /\ pc[c] = "idle" /\ pc'[c] # "idle")
             => /\ pc'[c] = "rejected"
                /\ outcome'[c] = [settled |-> "rejected", error |-> MissingKeyError,
                                  actions |-> <<>>, dropIds |-> <<>>]
                /\ locals'[c] = InitLocals
                /\ ticketArtworkCids' = ticketArtworkCids
          /\ (localStorage = Undefined /\ pc[c] = "rejected")
             => /\ pc'[c] = "rejected"
                /\ outcome'[c] = outcome[c]
                /\ locals'[c] = InitLocals
                /\ ticketArtworkCids' = ticketArtworkCids]_vars

\* A call with tickets and artwork references was rejected for the key.
MissingKeyWitness ==
    \E c \in Calls :
        /\ localStorage = Undefined
        /\ outcome[c].settled = "rejected"
        /\ outcome[c].error = MissingKeyError
        /\ formData.tickets # <<>>
        /\ ticketArtworkCids # <<>>

\* C5: the drop identifiers generated by one call are pairwise distinct.
DropIdsDistinct ==
    \A c \in Calls :
        \A i, j \in 1..Len(locals[c].drop_ids) :
            i # j => locals[c].drop_ids[i] # locals[c].drop_ids[j]

\* C6: after a successful call there are as many market listing records,
\* and as many drop identifiers, as ticket types.
ListingAndDropCounts ==
    \A c \in Calls :
        Resolved(c)
        => /\ Cardinality(DOMAIN TheAction(c).params.args.on_success.args.ticket_information)
                  = Len(formData.tickets)
           /\ Cardinality(DOMAIN locals[c].ticket_information) = Len(formData.tickets)
           /\ Len(outcome[c].dropIds) = Len(formData.tickets)
           /\ Len(TheAction(c).params.args.drop_ids) = Len(formData.tickets)

ArtworkOf(c, i) == locals[c].drop_configs[i].nft_keys_config.token_metadata.artwork

\* C7: the i-th ticket receives the i-th reference supplied, or "" when
\* fewer were supplied; and the loop throws only for a price that
\* parseNearAmount does not convert, never for a missing reference.
ArtworkInTicketOrder ==
    \A c \in Calls :
        /\ \A i \in 1..Len(locals[c].drop_configs) :
              ArtworkOf(c, i) =
                  IF i <= Len(supplied[c]) THEN supplied[c][i] ELSE ""
        /\ (pc[c] = "rejected" /\ locals[c].funderMetadata # <<>>
               /\ Len(locals[c].drop_ids) < Len(formData.tickets))
           => parseNearAmount(
                  OrElse(formData.tickets[Len(locals[c].drop_ids) + 1].priceNear,
                         <<"0">>)).kind # "value"
        /\ (pc[c] \in {"assemble", "done"})
           => Len(locals[c].drop_configs) = Len(formData.tickets)

\* Two tickets and one reference: the first ticket has it, the second "".
ArtworkWitness ==
    \E c \in Calls :
        /\ Resolved(c)
        /\ Len(formData.tickets) = 2
        /\ supplied[c] = <<"cid1">>
        /\ ArtworkOf(c, 1) = "cid1"
        /\ ArtworkOf(c, 2) = ""

\* C8: a successful call returns exactly one FunctionCall action for
\* create_drop_batch with gas "300000000000000", the estimator's total as
\* deposit and its marketListing as on_success.attached_deposit.
DepositsFromCostBreakdown ==
    \A c \in Calls :
        Resolved(c)
        => LET cost == calculateDepositCost(
                           [eventMetadata |-> locals[c].eventMetadata[1],
                            tickets |-> formData.tickets,
                            marketTicketInfo |-> locals[c].ticket_information])
               params == TheAction(c).params
           IN  /\ Len(outcome[c].actions) = 1
               /\ TheAction(c).type = "FunctionCall"
               /\ params.methodName = "create_drop_batch"
               /\ params.gas = "300000000000000"
               /\ cost.threw = ""
               /\ params.deposit = cost.costBreakdown.total
               /\ params.args.on_success.attached_deposit = cost.costBreakdown.marketListing
               /\ BigLeq(BigIntOfString(params.args.on_success.attached_deposit),
                         BigIntOfString(params.deposit))

\* A successful call whose deposit exceeds the attached deposit.
DepositsWitness ==
    \E c \in Calls :
        /\ Resolved(c)
        /\ BigLess(BigIntOfString(TheAction(c).params.args.on_success.attached_deposit),
                   BigIntOfString(TheAction(c).params.deposit))

HasEncryption(eventMetadata) ==
    /\ eventMetadata.pubKey # Undefined
    /\ eventMetadata.encPrivKey # Undefined
    /\ eventMetadata.iv # Undefined
    /\ eventMetadata.salt # Undefined

\* C9: the four encryption fields are on the event metadata before the
\* funder map entry is written and before the estimator is called, and a
\* successful call serializes a map of exactly one entry, keyed by eventId,
\* that carries them.
EncryptionAlwaysAttached ==
    \A c \in Calls :
        /\ (\/ pc[c] \in {"funder", "loop", "assemble", "done"}
            \/ locals[c].funderMetadata # <<>>
            \/ locals[c].costBreakdown # NoCost
            \/ outcome[c].error = "RangeError")
           => HasEncryption(locals[c].eventMetadata[1])
        /\ Resolved(c)
           => /\ locals[c].funderMetadata = <<eventId>>
              /\ TheAction(c).params.args.change_user_metadata =
                     "{" \o JSONString(eventId) \o ":"
                         \o StringifyEventMetadata(locals[c].eventMetadata[1]) \o "}"

\* A successful call has serialized the funder metadata.
EncryptionWitness ==
    \E c \in Calls :
        /\ Resolved(c)
        /\ HasEncryption(locals[c].eventMetadata[1])
        /\ TheAction(c).params.args.change_user_metadata # "{}"

\* C12: once a call has been made and no invocation is running, the
\* caller's ticketArtworkCids array holds what it held when the call was
\* made, and each ticket of the call carries the artwork it would carry had
\* the call run alone on the array supplied.
CallerArrayUnchanged ==
    \A c \in Calls :
        (running = 0 /\ pc[c] \notin {"unused", "idle"})
        => /\ ticketArtworkCids = supplied[c]
           /\ \A i \in 1..Len(locals[c].drop_configs) :
                 ArtworkOf(c, i) = IF i <= Len(supplied[c]) THEN supplied[c][i] ELSE ""

\* C13: the estimator is called only with at least one ticket and at least
\* one listing, so no call ends in the RangeError of a division by zero.
EstimatorNeverGivenEmpty ==
    \A c \in Calls :
        /\ outcome[c].error # "RangeError"
        /\ (locals[c].costBreakdown # NoCost \/ pc[c] \in {"assemble", "done"})
           => /\ formData.tickets # <<>>
              /\ DOMAIN locals[c].ticket_information # {}

\* JSON.stringify of the token metadata of the drops of a call, the ticket
\* data that its action carries.
PersistedTickets(c) ==
    JSONArray([i \in 1..Len(locals[c].drop_configs) |->
                  StringifyTicketNftInfo(
                      locals[c].drop_configs[i].nft_keys_config.token_metadata)])

\* C14: the drop deposit within the total of a successful call is the base
\* cost of its drops plus YOCTO_PER_BYTE for every byte of the serialized
\* token metadata in the drop_configs of its action.
DropDepositCoversPersisted ==
    \A c \in Calls :
        Resolved(c)
        => /\ TheAction(c).params.deposit = locals[c].costBreakdown.total
           /\ TheAction(c).params.args.drop_configs = locals[c].drop_configs
           /\ DropDepositIn(locals[c].costBreakdown) =
                  BigAdd(AddProduct(FIRST_DROP_BASE_COST, Len(formData.tickets) - 1,
                                    SUBSEQUENT_DROP_BASE_COST),
                         BytesCost(getByteSize(PersistedTickets(c))))

(***************************************************************************)
(* Properties of serializeMediaForWorker, checked under SpecMedia.         *)
(***************************************************************************)
\* The artworks of a form in the order of the result: the event artwork,
\* then the artwork of each ticket.
ArtworksOf(form) ==
    <<form.eventArtwork>> \o [i \in 1..Len(form.tickets) |-> form.tickets[i].artwork]

ReadSucceeds(artwork) ==
    HasFile(artwork) /\ artwork[1][1].isFile /\ ~artwork[1][1].unreadable

\* C15: the call never rejects; with event artwork given it resolves with
\* the encodings of exactly the artworks whose read succeeds, the event
\* artwork first and the ticket artworks in form order, an artwork whose
\* read fails leaving no entry.
FailedReadsAreSkipped ==
    /\ mediaOutcome.settled # "rejected"
    /\ mediaPc = "done"
       => /\ mediaOutcome.settled = "resolved"
          /\ mediaForm.eventArtwork # Undefined
             => LET read == SelectSeq(ArtworksOf(mediaForm), ReadSucceeds)
                IN  mediaOutcome.value =
                        [i \in 1..Len(read) |-> arrayBufferToBase64(read[i][1][1].bytes)]

\* The read of the event artwork failed, the reads of two ticket artworks
\* succeeded, and the result holds those two in form order.
SkippedReadWitness ==
    /\ mediaPc = "done"
    /\ HasFile(mediaForm.eventArtwork)
    /\ ~ReadSucceeds(mediaForm.eventArtwork)
    /\ Len(mediaForm.tickets) = 2
    /\ mediaForm.tickets[1].artwork = Some(<<[isFile |-> TRUE, unreadable |-> FALSE,
                                             bytes |-> <<77, 97>>]>>)
    /\ mediaForm.tickets[2].artwork = Some(<<[isFile |-> TRUE, unreadable |-> FALSE,
                                             bytes |-> <<255, 0, 110>>]>>)
    /\ mediaOutcome.value = <<"TWE=", "/wBu">>

====
